---------------------------- MODULE Spec2Model ----------------------------
(***************************************************************************)
(* Model of the las-crs library (src/src/lib.rs): the EpsgCRS value type,  *)
(* the WKT trailing-integer scanner, the GeoTIFF key-directory reducer and *)
(* the header dispatcher.                                                  *)
(*                                                                         *)
(* Conventions.  Option<T> is a sequence of length at most one: None is    *)
(* <<>> and Some(x) is <<x>>.  Result<T> is a record with a tag field:     *)
(* "Ok" (field val), "Err" (field err, a record with a kind field) or      *)
(* "Panic" (an arithmetic-overflow panic of a build with overflow checks). *)
(* Byte buffers are sequences of integers 0..255.                          *)
(***************************************************************************)
EXTENDS Integers, Sequences, FiniteSets

VARIABLES
    crs,          \* the EpsgCRS value a caller holds (NoCrs before construction)
    call,         \* the last EpsgCRS operation called, with its arguments
    ret,          \* what that operation returned
    overflow_checks,  \* TRUE: build panics on u16 overflow; FALSE: it wraps
    wkt_in,       \* Option: the byte buffer given to get_epsg_from_wkt_crs_bytes
    wkt_run,      \* the scanner's run on it: text, pieces, codes, result
    gt_in,        \* Option: the directory given to get_epsg_from_geotiff_crs
    gt_out,       \* its result
    hdr,          \* the three header signals given to get_epsg_crs
    hdr_out       \* its result

vars == <<crs, call, ret, overflow_checks, wkt_in, wkt_run, gt_in, gt_out, hdr, hdr_out>>

crsVars == <<crs, call, ret>>
wktVars == <<wkt_in, wkt_run>>
gtVars  == <<gt_in, gt_out>>
hdrVars == <<hdr, hdr_out>>

---------------------------------------------------------------------------
(* Option and Result *)

None == <<>>
Some(x) == <<x>>

Ok(v) == [tag |-> "Ok", val |-> v]
Err(e) == [tag |-> "Err", err |-> e]
Panic == [tag |-> "Panic"]

\* The unit value of Ok(())
Unit == "()"

---------------------------------------------------------------------------
(* u16 and EPSG_RANGE *)

U16_MAX == 65535
U16_MOD == U16_MAX + 1

EPSG_MIN == 1024
EPSG_MAX == 32767

\* EPSG_RANGE.contains(&c)
EPSG_RANGE_contains(c) == EPSG_MIN <= c /\ c <= EPSG_MAX

---------------------------------------------------------------------------
(* Error kinds *)

BadEPSGCrs == [kind |-> "BadEPSGCrs"]
SetBadCode(c) == [kind |-> "SetBadCode", code |-> c]
UserDefinedCrs == [kind |-> "UserDefinedCrs"]
BadHorizontalCodeParsed(c) == [kind |-> "BadHorizontalCodeParsed", crs |-> c]
UnimplementedForGeoTiffStringAndDoubleData(d) ==
    [kind |-> "UnimplementedForGeoTiffStringAndDoubleData", data |-> d]
\* Error::LasError(e), the transparent wrapper of a las::Error
LasError(e) == [kind |-> "LasError", las |-> e]

---------------------------------------------------------------------------
(* EpsgCRS *)

EpsgCRS(h, v) == [horizontal |-> h, vertical |-> v]

in_epsg_range_ignoring_vertical(self) ==
    EPSG_RANGE_contains(self.horizontal)

in_epsg_range(self) ==
    IF self.vertical # None /\ ~EPSG_RANGE_contains(self.vertical[1])
    THEN FALSE
    ELSE EPSG_RANGE_contains(self.horizontal)

new(horizontal_code, vertical_code) ==
    LET code == EpsgCRS(horizontal_code, vertical_code)
    IN  IF in_epsg_range(code) THEN Ok(code) ELSE Err(BadEPSGCrs)

new_unchecked(horizontal_code, vertical_code) ==
    EpsgCRS(horizontal_code, vertical_code)

get_horizontal(self) == self.horizontal

get_vertical(self) == self.vertical

\* A setter yields the value of *self after the call and the call's result.
set_horizontal_revalidating(self, horizontal_code) ==
    IF in_epsg_range(EpsgCRS(horizontal_code, self.vertical))
    THEN [self |-> [self EXCEPT !.horizontal = horizontal_code], ret |-> Ok(Unit)]
    ELSE [self |-> self, ret |-> Err(SetBadCode(horizontal_code))]

set_horizontal(self, horizontal_code) ==
    IF EPSG_RANGE_contains(horizontal_code)
    THEN [self |-> [self EXCEPT !.horizontal = horizontal_code], ret |-> Ok(Unit)]
    ELSE [self |-> self, ret |-> Err(SetBadCode(horizontal_code))]

set_vertical_write_first(self, vertical_code) ==
    IF EPSG_RANGE_contains(vertical_code)
    THEN [self |-> [self EXCEPT !.vertical = Some(vertical_code)], ret |-> Ok(Unit)]
    ELSE [self |-> [self EXCEPT !.vertical = Some(vertical_code)],
          ret |-> Err(SetBadCode(vertical_code))]

set_vertical(self, vertical_code) ==
    IF EPSG_RANGE_contains(vertical_code)
    THEN [self |-> [self EXCEPT !.vertical = Some(vertical_code)], ret |-> Ok(Unit)]
    ELSE [self |-> self, ret |-> Err(SetBadCode(vertical_code))]

set_horizontal_unchecked(self, horizontal_code) ==
    [self EXCEPT !.horizontal = horizontal_code]

set_vertical_unchecked(self, vertical_code) ==
    [self EXCEPT !.vertical = Some(vertical_code)]

---------------------------------------------------------------------------
(* The u16 codes the EpsgCRS operations are called with: both ends of the  *)
(* u16 range and Margin codes on either side of each end of EPSG_RANGE.    *)

Margin == 1

Codes ==
    {0, U16_MAX}
    \cup ((EPSG_MIN - Margin) .. (EPSG_MIN + Margin))
    \cup ((EPSG_MAX - Margin) .. (EPSG_MAX + Margin))

OptCodes == {None} \cup {Some(c) : c \in Codes}

\* No EpsgCRS constructed yet
NoCrs == [horizontal |-> -1, vertical |-> None]

NoCall == [op |-> "none", h |-> -1, v |-> None]
NoRet == [tag |-> "none"]

Call(op, h, v) == [op |-> op, h |-> h, v |-> v]

---------------------------------------------------------------------------
(* Idle values of the variables a specification does not use *)

InitCrsVars == crs = NoCrs /\ call = NoCall /\ ret = NoRet
InitWktVars == wkt_in = None /\ wkt_run = [tag |-> "none"]
InitGtVars  == gt_in = None /\ gt_out = NoRet
InitHdrVars == hdr = [tag |-> "none"] /\ hdr_out = NoRet

---------------------------------------------------------------------------
(* EpsgCRS operations as actions *)

New ==
    \E h \in Codes, v \in OptCodes :
        LET r == new(h, v)
        IN  /\ call' = Call("new", h, v)
            /\ ret' = r
            /\ crs' = IF r.tag = "Ok" THEN r.val ELSE crs
            /\ UNCHANGED <<overflow_checks, wktVars, gtVars, hdrVars>>

NewUnchecked ==
    \E h \in Codes, v \in OptCodes :
        /\ call' = Call("new_unchecked", h, v)
        /\ ret' = Ok(Unit)
        /\ crs' = new_unchecked(h, v)
        /\ UNCHANGED <<overflow_checks, wktVars, gtVars, hdrVars>>

SetHorizontal ==
    /\ crs # NoCrs
    /\ \E c \in Codes :
        LET r == set_horizontal(crs, c)
        IN  /\ call' = Call("set_horizontal", c, None)
            /\ ret' = r.ret
            /\ crs' = r.self
    /\ UNCHANGED <<overflow_checks, wktVars, gtVars, hdrVars>>

SetVertical ==
    /\ crs # NoCrs
    /\ \E c \in Codes :
        LET r == set_vertical(crs, c)
        IN  /\ call' = Call("set_vertical", -1, Some(c))
            /\ ret' = r.ret
            /\ crs' = r.self
    /\ UNCHANGED <<overflow_checks, wktVars, gtVars, hdrVars>>

SetHorizontalUnchecked ==
    /\ crs # NoCrs
    /\ \E c \in Codes :
        /\ call' = Call("set_horizontal_unchecked", c, None)
        /\ ret' = Ok(Unit)
        /\ crs' = set_horizontal_unchecked(crs, c)
    /\ UNCHANGED <<overflow_checks, wktVars, gtVars, hdrVars>>

SetVerticalUnchecked ==
    /\ crs # NoCrs
    /\ \E c \in Codes :
        /\ call' = Call("set_vertical_unchecked", -1, Some(c))
        /\ ret' = Ok(Unit)
        /\ crs' = set_vertical_unchecked(crs, c)
    /\ UNCHANGED <<overflow_checks, wktVars, gtVars, hdrVars>>

InitCrs ==
    /\ InitCrsVars /\ InitWktVars /\ InitGtVars /\ InitHdrVars
    /\ overflow_checks = FALSE

\* Every EpsgCRS operation, checked and unchecked
NextCrs ==
    \/ New
    \/ NewUnchecked
    \/ SetHorizontal
    \/ SetVertical
    \/ SetHorizontalUnchecked
    \/ SetVerticalUnchecked

SpecCrs == InitCrs /\ [][NextCrs]_vars

\* The checked path only: new, set_horizontal, set_vertical
NextChecked ==
    \/ New
    \/ SetHorizontal
    \/ SetVertical

SpecChecked == InitCrs /\ [][NextChecked]_vars

---------------------------------------------------------------------------
(* String::from_utf8_lossy: valid UTF-8 is kept, and every maximal invalid *)
(* byte sequence becomes U+FFFD, whose UTF-8 encoding is EF BF BD.         *)

REPLACEMENT_CHARACTER == <<239, 191, 189>>

utf8_char_width(b) ==
    IF b >= 194 /\ b <= 223 THEN 2
    ELSE IF b >= 224 /\ b <= 239 THEN 3
    ELSE IF b >= 240 /\ b <= 244 THEN 4
    ELSE 0

\* (b & 192) == 128
is_continuation(b) == b >= 128 /\ b <= 191

\* the second byte a three- or four-byte lead admits
second_byte_ok(lead, b) ==
    IF lead = 224 THEN b >= 160 /\ b <= 191
    ELSE IF lead = 237 THEN b >= 128 /\ b <= 159
    ELSE IF lead = 240 THEN b >= 144 /\ b <= 191
    ELSE IF lead = 244 THEN b >= 128 /\ b <= 143
    ELSE b >= 128 /\ b <= 191

RECURSIVE lossy_from(_, _)
lossy_from(src, i) ==
    IF i > Len(src) THEN <<>>
    ELSE
        LET b == src[i]
            at(j) == IF j <= Len(src) THEN src[j] ELSE 0
            w == utf8_char_width(b)
        IN  IF b < 128 THEN <<b>> \o lossy_from(src, i + 1)
            ELSE IF w = 2 THEN
                IF is_continuation(at(i + 1))
                THEN SubSeq(src, i, i + 1) \o lossy_from(src, i + 2)
                ELSE REPLACEMENT_CHARACTER \o lossy_from(src, i + 1)
            ELSE IF w = 3 THEN
                IF ~second_byte_ok(b, at(i + 1))
                THEN REPLACEMENT_CHARACTER \o lossy_from(src, i + 1)
                ELSE IF ~is_continuation(at(i + 2))
                THEN REPLACEMENT_CHARACTER \o lossy_from(src, i + 2)
                ELSE SubSeq(src, i, i + 2) \o lossy_from(src, i + 3)
            ELSE IF w = 4 THEN
                IF ~second_byte_ok(b, at(i + 1))
                THEN REPLACEMENT_CHARACTER \o lossy_from(src, i + 1)
                ELSE IF ~is_continuation(at(i + 2))
                THEN REPLACEMENT_CHARACTER \o lossy_from(src, i + 2)
                ELSE IF ~is_continuation(at(i + 3))
                THEN REPLACEMENT_CHARACTER \o lossy_from(src, i + 3)
                ELSE SubSeq(src, i, i + 3) \o lossy_from(src, i + 4)
            ELSE REPLACEMENT_CHARACTER \o lossy_from(src, i + 1)

from_utf8_lossy(bytes) == lossy_from(bytes, 1)

---------------------------------------------------------------------------
(* WktPieces::get_code *)

\* u8::is_ascii_whitespace: space, tab, line feed, form feed, carriage return
is_ascii_whitespace(b) == b \in {32, 9, 10, 12, 13}

\* u8::is_ascii_digit
is_ascii_digit(b) == b >= 48 /\ b <= 57

RECURSIVE trim_ascii_end(_)
trim_ascii_end(bytes) ==
    IF bytes # <<>> /\ is_ascii_whitespace(bytes[Len(bytes)])
    THEN trim_ascii_end(SubSeq(bytes, 1, Len(bytes) - 1))
    ELSE bytes

\* .take(10)
SCAN_WINDOW == 10

\* One u16 operation: the value it leaves and whether it overflowed.  With
\* overflow checks the overflow panics; without them the value wraps.
wrap_u16(x) == x % U16_MOD

\* The loop of get_code from the k-th byte from the end of the trimmed
\* buffer b on.  ovf records that some u16 product or sum left 0..65535;
\* bytes is the trimmed buffer the loop ran over.
RECURSIVE get_code_loop(_, _, _, _, _, _)
get_code_loop(b, k, epsg_code, power, code_has_started, ovf) ==
    IF k > SCAN_WINDOW \/ k > Len(b)
    THEN [bytes |-> b, ret |-> Ok(epsg_code), overflowed |-> ovf]
    ELSE
        LET byte == b[Len(b) + 1 - k]
        IN  IF is_ascii_digit(byte) THEN
                LET prod == power * (byte - 48)
                    sum  == epsg_code + wrap_u16(prod)
                    pow  == power * 10
                    over == prod > U16_MAX \/ sum > U16_MAX \/ pow > U16_MAX
                IN  IF over /\ overflow_checks
                    THEN [bytes |-> b, ret |-> Panic, overflowed |-> TRUE]
                    ELSE get_code_loop(b, k + 1, wrap_u16(sum), wrap_u16(pow),
                                       TRUE, ovf \/ over)
            ELSE IF code_has_started
            THEN [bytes |-> b, ret |-> Ok(epsg_code), overflowed |-> ovf]
            ELSE get_code_loop(b, k + 1, epsg_code, power, code_has_started, ovf)

\* get_code with what the run did: [bytes |-> the buffer given, ret, overflowed]
get_code_trace(bytes) ==
    [get_code_loop(trim_ascii_end(bytes), 1, 0, 1, FALSE, FALSE)
        EXCEPT !.bytes = bytes]

get_code(bytes) == get_code_trace(bytes).ret

---------------------------------------------------------------------------
(* get_epsg_from_wkt_crs_bytes *)

VERTCRS     == <<86, 69, 82, 84, 67, 82, 83>>                  \* "VERTCRS"
VERTICALCRS == <<86, 69, 82, 84, 73, 67, 65, 76, 67, 82, 83>>  \* "VERTICALCRS"
VERT_CS     == <<86, 69, 82, 84, 95, 67, 83>>                  \* "VERT_CS"

\* the start indices of the occurrences of pat in text
occurrences(text, pat) ==
    {i \in 1 .. (Len(text) - Len(pat) + 1) : SubSeq(text, i, i + Len(pat) - 1) = pat}

\* str::split_once: around the first occurrence of pat
split_once(text, pat) ==
    LET occ == occurrences(text, pat)
    IN  IF occ = {} THEN None
        ELSE LET i == CHOOSE i \in occ : \A j \in occ : i <= j
             IN  Some(<<SubSeq(text, 1, i - 1),
                        SubSeq(text, i + Len(pat), Len(text))>>)

One(hor) == [kind |-> "One", hor |-> hor, ver |-> None]
Two(hor, ver) == [kind |-> "Two", hor |-> hor, ver |-> Some(ver)]

split_pieces_v1_first(wkt) ==
    LET a == split_once(wkt, VERT_CS)
        b == split_once(wkt, VERTICALCRS)
        c == split_once(wkt, VERTCRS)
    IN  IF a # None THEN Two(a[1][1], a[1][2])
        ELSE IF b # None THEN Two(b[1][1], b[1][2])
        ELSE IF c # None THEN Two(c[1][1], c[1][2])
        ELSE One(wkt)

\* let pieces = if let Some(..) = wkt.split_once("VERTCRS") .. else One
split_pieces(wkt) ==
    LET a == split_once(wkt, VERTCRS)
        b == split_once(wkt, VERTICALCRS)
        c == split_once(wkt, VERT_CS)
    IN  IF a # None THEN Two(a[1][1], a[1][2])
        ELSE IF b # None THEN Two(b[1][1], b[1][2])
        ELSE IF c # None THEN Two(c[1][1], c[1][2])
        ELSE One(wkt)

NotRun == [bytes |-> <<>>, ret |-> [tag |-> "none"], overflowed |-> FALSE]

\* WktPieces::parse_codes, with the get_code run of each piece.  The tuple
\* is built left to right: a panic on the horizontal piece ends the call.
parse_codes(pieces) ==
    LET h == get_code_trace(pieces.hor)
        v == IF pieces.kind = "Two" /\ h.ret.tag = "Ok"
             THEN get_code_trace(pieces.ver[1])
             ELSE NotRun
    IN  [hor |-> h,
         ver |-> v,
         ret |-> IF h.ret.tag = "Panic" THEN Panic
                 ELSE IF pieces.kind = "One" THEN Ok(<<h.ret.val, 0>>)
                 ELSE IF v.ret.tag = "Panic" THEN Panic
                 ELSE Ok(<<h.ret.val, v.ret.val>>)]

\* lines 269-283: from the parsed codes to the result
validate_parsed(horizontal, vertical) ==
    LET code == EpsgCRS(horizontal, vertical)
    IN  IF ~EPSG_RANGE_contains(code.horizontal)
        THEN Err(BadHorizontalCodeParsed(code))
        ELSE IF code.vertical # None /\ ~EPSG_RANGE_contains(code.vertical[1])
        THEN Ok([code EXCEPT !.vertical = None])
        ELSE Ok(code)

\* The whole run of get_epsg_from_wkt_crs_bytes on a buffer
wkt_scan(bytes) ==
    LET wkt == from_utf8_lossy(bytes)
        pieces == split_pieces(wkt)
        codes == parse_codes(pieces)
    IN  [tag |-> "ran",
         text |-> wkt,
         pieces |-> pieces,
         codes |-> codes,
         result |-> IF codes.ret.tag = "Panic" THEN Panic
                    ELSE validate_parsed(codes.ret.val[1], Some(codes.ret.val[2]))]

get_epsg_from_wkt_crs_bytes(bytes) == wkt_scan(bytes).result

---------------------------------------------------------------------------
(* WKT buffers: concatenations of at most MaxTokens tokens *)

MaxTokens == 3

TOK_2992   == <<50, 57, 57, 50>>          \* "2992"
TOK_25832  == <<50, 53, 56, 51, 50>>      \* "25832"
TOK_0      == <<48>>                      \* "0"
TOK_9      == <<57>>                      \* "9"
TOK_CLOSE  == <<34, 93, 93>>              \* "]] after a quoted code
TOK_SPACE  == <<32>>                      \* " "
TOK_BAD    == <<255>>                     \* a byte no UTF-8 text holds
TOK_PAD    == <<34, 93, 93, 93, 93, 93, 93, 93>>   \* eight bytes, no digit

WktTokens ==
    {TOK_2992, TOK_25832, TOK_0, TOK_9, TOK_CLOSE, TOK_SPACE, TOK_BAD, TOK_PAD,
     VERTCRS, VERTICALCRS, VERT_CS}

RECURSIVE Concat(_)
Concat(ts) == IF ts = <<>> THEN <<>> ELSE Head(ts) \o Concat(Tail(ts))

BuffersOf(tokens, n) ==
    {Concat(ts) : ts \in UNION {[1 .. k -> tokens] : k \in 0 .. n}}

WktInputs == BuffersOf(WktTokens, MaxTokens)

ScanWkt ==
    /\ wkt_in # None
    /\ wkt_run.tag = "none"
    /\ wkt_run' = wkt_scan(wkt_in[1])
    /\ UNCHANGED <<wkt_in, overflow_checks, crsVars, gtVars, hdrVars>>

InitWkt ==
    /\ InitCrsVars /\ InitGtVars /\ InitHdrVars
    /\ overflow_checks \in BOOLEAN
    /\ wkt_in \in {Some(b) : b \in WktInputs}
    /\ wkt_run = [tag |-> "none"]

NextWkt == ScanWkt

SpecWkt == InitWkt /\ [][NextWkt]_vars

---------------------------------------------------------------------------
(* get_epsg_from_geotiff_crs *)

\* las::crs::GeoTiffData: U16(v), String(s) (its bytes), Doubles(d)
U16(v) == [kind |-> "U16", v |-> v]
String(s) == [kind |-> "String", s |-> s]
Doubles(d) == [kind |-> "Doubles", d |-> d]

\* las::crs::GeoTiffKeyEntry
Entry(id, data) == [id |-> id, data |-> data]

\* las::Error::UnreadableGeoTiffCrs
UnreadableGeoTiffCrs == "UnreadableGeoTiffCrs"

Continue(out) == [tag |-> "Continue", out |-> out]
Return(r) == [tag |-> "Return", ret |-> r]

\* A reducer that fails on a model type of 0
reduce_entry_zero_fails(out, entry) ==
    IF entry.id = 1024 THEN
        IF entry.data.kind = "U16" /\ entry.data.v \in {1, 2, 3}
        THEN Continue(out)
        ELSE IF entry.data = U16(0)
        THEN Return(Err(LasError(UnreadableGeoTiffCrs)))
        ELSE IF entry.data = U16(32767)
        THEN Return(Err(UserDefinedCrs))
        ELSE Return(Err(UnimplementedForGeoTiffStringAndDoubleData(entry.data)))
    ELSE IF entry.id \in {2048, 3072} THEN
        IF entry.data.kind = "U16"
        THEN Continue(<<entry.data.v, out[2]>>)
        ELSE Continue(out)
    ELSE IF entry.id = 4096 THEN
        IF entry.data.kind = "U16"
        THEN Continue(<<out[1], Some(entry.data.v)>>)
        ELSE Continue(out)
    ELSE Continue(out)

\* A reducer that reads the horizontal code from key 2048 only
reduce_entry_geographic_only(out, entry) ==
    IF entry.id = 1024 THEN
        IF entry.data.kind = "U16" /\ entry.data.v \in {0, 1, 2, 3}
        THEN Continue(out)
        ELSE IF entry.data = U16(32767)
        THEN Return(Err(UserDefinedCrs))
        ELSE Return(Err(UnimplementedForGeoTiffStringAndDoubleData(entry.data)))
    ELSE IF entry.id = 2048 THEN
        IF entry.data.kind = "U16"
        THEN Continue(<<entry.data.v, out[2]>>)
        ELSE Continue(out)
    ELSE IF entry.id = 4096 THEN
        IF entry.data.kind = "U16"
        THEN Continue(<<out[1], Some(entry.data.v)>>)
        ELSE Continue(out)
    ELSE Continue(out)

\* A reducer whose last arm takes any other key's inline value as the
\* horizontal code
reduce_entry_any_key(out, entry) ==
    IF entry.id = 1024 THEN
        IF entry.data.kind = "U16" /\ entry.data.v \in {0, 1, 2, 3}
        THEN Continue(out)
        ELSE IF entry.data = U16(32767)
        THEN Return(Err(UserDefinedCrs))
        ELSE Return(Err(UnimplementedForGeoTiffStringAndDoubleData(entry.data)))
    ELSE IF entry.id = 4096 THEN
        IF entry.data.kind = "U16"
        THEN Continue(<<out[1], Some(entry.data.v)>>)
        ELSE Continue(out)
    ELSE
        IF entry.data.kind = "U16"
        THEN Continue(<<entry.data.v, out[2]>>)
        ELSE Continue(out)

\* The body of the for loop: one entry, from the candidates out = (h, v)
reduce_entry(out, entry) ==
    IF entry.id = 1024 THEN
        IF entry.data.kind = "U16" /\ entry.data.v \in {0, 1, 2, 3}
        THEN Continue(out)
        ELSE IF entry.data = U16(32767)
        THEN Return(Err(UserDefinedCrs))
        ELSE Return(Err(UnimplementedForGeoTiffStringAndDoubleData(entry.data)))
    ELSE IF entry.id \in {2048, 3072} THEN
        IF entry.data.kind = "U16"
        THEN Continue(<<entry.data.v, out[2]>>)
        ELSE Continue(out)
    ELSE IF entry.id = 4096 THEN
        IF entry.data.kind = "U16"
        THEN Continue(<<out[1], Some(entry.data.v)>>)
        ELSE Continue(out)
    ELSE Continue(out)

\* lines 322-339: from the candidates to the result
validate_reduced(out) ==
    IF out[1] = 0 THEN Err(LasError(UnreadableGeoTiffCrs))
    ELSE
        LET code == EpsgCRS(out[1], out[2])
        IN  IF ~EPSG_RANGE_contains(code.horizontal)
            THEN Err(BadHorizontalCodeParsed(code))
            ELSE IF code.vertical # None /\ ~EPSG_RANGE_contains(code.vertical[1])
            THEN Ok([code EXCEPT !.vertical = None])
            ELSE Ok(code)

RECURSIVE reduce_entries(_, _, _)
reduce_entries(entries, i, out) ==
    IF i > Len(entries) THEN validate_reduced(out)
    ELSE LET step == reduce_entry(out, entries[i])
         IN  IF step.tag = "Return" THEN step.ret
             ELSE reduce_entries(entries, i + 1, step.out)

get_epsg_from_geotiff_crs(geotiff_crs_data) ==
    reduce_entries(geotiff_crs_data, 1, <<0, None>>)

---------------------------------------------------------------------------
(* Directories: at most MaxEntries entries *)

MaxEntries == 3

TEXT == <<87, 71, 83>>     \* the bytes of a String payload, "WGS"
FLOATS == <<1>>             \* the list of a Doubles payload

GtEntries ==
    {Entry(1024, U16(0)), Entry(1024, U16(1)), Entry(1024, U16(3)),
     Entry(1024, U16(4)), Entry(1024, U16(32767)), Entry(1024, String(TEXT)),
     Entry(2048, U16(4326)), Entry(2048, U16(0)), Entry(2048, String(TEXT)),
     Entry(3072, U16(25832)), Entry(3072, U16(40000)),
     Entry(4096, U16(5941)), Entry(4096, U16(100)), Entry(4096, Doubles(FLOATS)),
     Entry(3076, U16(9001))}

DirsOf(entries, n) == UNION {[1 .. k -> entries] : k \in 0 .. n}

GtInputs == DirsOf(GtEntries, MaxEntries)

ReduceGeoTiff ==
    /\ gt_in # None
    /\ gt_out = NoRet
    /\ gt_out' = get_epsg_from_geotiff_crs(gt_in[1])
    /\ UNCHANGED <<gt_in, overflow_checks, crsVars, wktVars, hdrVars>>

InitGeoTiff ==
    /\ InitCrsVars /\ InitWktVars /\ InitHdrVars
    /\ overflow_checks = FALSE
    /\ gt_in \in {Some(d) : d \in GtInputs}
    /\ gt_out = NoRet

NextGeoTiff == ReduceGeoTiff

SpecGeoTiff == InitGeoTiff /\ [][NextGeoTiff]_vars

---------------------------------------------------------------------------
(* ParseEpsgCRS::get_epsg_crs *)

WARN_WKT_UNDECLARED == "WKT CRS (E)VLR found, but header says it does not exist"
WARN_ONLY_GEOTIFF == "Only Geotiff CRS (E)VLR(s) found, but header says WKT exists"
WARN_NO_CRS == "No CRS (E)VLR(s) found, but header says WKT exists"

\* The header as the function sees it: get_wkt_crs_bytes() (an Option),
\* get_geotiff_crs() (a Result of an Option) and has_wkt_crs()
Header(wkt, geotiff, has_wkt) ==
    [tag |-> "header", wkt |-> wkt, geotiff |-> geotiff, has_wkt |-> has_wkt]

\* Ok(Some(r?)): an error or a panic of r passes through
OkSome(r) == IF r.tag = "Ok" THEN Ok(Some(r.val)) ELSE r

Outcome(r, log) == [ret |-> r, log |-> log]

\* A dispatcher that asks for the GeoTIFF directory before the WKT bytes
get_epsg_crs_geotiff_first(self) ==
    IF self.geotiff.tag = "Err"
    THEN Outcome(Err(LasError(self.geotiff.err)), <<>>)
    ELSE IF self.wkt # None
    THEN Outcome(OkSome(get_epsg_from_wkt_crs_bytes(self.wkt[1])),
                 IF ~self.has_wkt THEN <<WARN_WKT_UNDECLARED>> ELSE <<>>)
    ELSE IF self.geotiff.val # None
    THEN Outcome(OkSome(get_epsg_from_geotiff_crs(self.geotiff.val[1])),
                 IF self.has_wkt THEN <<WARN_ONLY_GEOTIFF>> ELSE <<>>)
    ELSE Outcome(Ok(None), IF self.has_wkt THEN <<WARN_NO_CRS>> ELSE <<>>)

get_epsg_crs(self) ==
    IF self.wkt # None
    THEN Outcome(OkSome(get_epsg_from_wkt_crs_bytes(self.wkt[1])),
                 IF ~self.has_wkt THEN <<WARN_WKT_UNDECLARED>> ELSE <<>>)
    ELSE IF self.geotiff.tag = "Err"
    THEN Outcome(Err(LasError(self.geotiff.err)), <<>>)
    ELSE IF self.geotiff.val # None
    THEN Outcome(OkSome(get_epsg_from_geotiff_crs(self.geotiff.val[1])),
                 IF self.has_wkt THEN <<WARN_ONLY_GEOTIFF>> ELSE <<>>)
    ELSE Outcome(Ok(None), IF self.has_wkt THEN <<WARN_NO_CRS>> ELSE <<>>)

---------------------------------------------------------------------------
(* Headers: WKT bytes of at most MaxHdrTokens tokens, a directory of at    *)
(* most MaxHdrEntries entries or a failure of the reading library          *)

MaxHdrTokens == 2
MaxHdrEntries == 2

HdrTokens == {TOK_2992, TOK_25832, TOK_CLOSE, VERTCRS}

HdrEntries ==
    {Entry(1024, U16(1)), Entry(1024, U16(32767)),
     Entry(2048, U16(4326)), Entry(4096, U16(5941))}

\* the las::Error a failing get_geotiff_crs() returns
LAS_ERROR == "las::Error"

HdrWkt == {None} \cup {Some(b) : b \in BuffersOf(HdrTokens, MaxHdrTokens)}

HdrGeoTiff ==
    {Err(LAS_ERROR), Ok(None)}
    \cup {Ok(Some(d)) : d \in DirsOf(HdrEntries, MaxHdrEntries)}

GetEpsgCrs ==
    /\ hdr.tag = "header"
    /\ hdr_out = NoRet
    /\ hdr_out' = get_epsg_crs(hdr)
    /\ UNCHANGED <<hdr, overflow_checks, crsVars, wktVars, gtVars>>

InitHeader ==
    /\ InitCrsVars /\ InitWktVars /\ InitGtVars
    /\ overflow_checks \in BOOLEAN
    /\ hdr \in {Header(w, g, f) : w \in HdrWkt, g \in HdrGeoTiff, f \in BOOLEAN}
    /\ hdr_out = NoRet

NextHeader == GetEpsgCrs

SpecHeader == InitHeader /\ [][NextHeader]_vars

---------------------------------------------------------------------------
(* Claims about EpsgCRS *)

\* C2: new(h, v) succeeds iff h is in [1024, 32767] and v is absent or in
\* [1024, 32767]; on success the accessors return exactly h and v; otherwise
\* it fails with BadEPSGCrs.
C2_NewChecksBothCodes ==
    call.op = "new" =>
        LET good == /\ call.h >= 1024 /\ call.h <= 32767
                    /\ (call.v = None \/ (call.v[1] >= 1024 /\ call.v[1] <= 32767))
        IN  IF good
            THEN /\ ret.tag = "Ok"
                 /\ get_horizontal(ret.val) = call.h
                 /\ get_vertical(ret.val) = call.v
                 /\ get_horizontal(crs) = call.h
                 /\ get_vertical(crs) = call.v
            ELSE ret = Err(BadEPSGCrs)

\* new rejected a call whose horizontal code is in range and whose vertical is not
C2_Witness ==
    /\ call.op = "new"
    /\ call.h = 1024
    /\ call.v = Some(32768)
    /\ ret = Err(BadEPSGCrs)
    /\ crs = NoCrs

\* C3: on the checked path (new, set_horizontal, set_vertical with any codes,
\* accepted or rejected) the horizontal code is in [1024, 32767] and the
\* vertical code is absent or in [1024, 32767].
C3_CheckedPathInRange ==
    crs # NoCrs =>
        /\ crs.horizontal >= 1024 /\ crs.horizontal <= 32767
        /\ (crs.vertical = None \/ (crs.vertical[1] >= 1024 /\ crs.vertical[1] <= 32767))
        /\ in_epsg_range(crs)

\* a checked setter has just rejected an out-of-range code on a constructed value
C3_Witness ==
    /\ crs # NoCrs
    /\ call.op = "set_vertical"
    /\ call.v = Some(32768)
    /\ ret = Err(SetBadCode(32768))
    /\ crs.vertical # None

\* C4: a checked setter validates only the code it is given: out of range it
\* returns SetBadCode(c) and leaves both components unchanged; in range it
\* returns Ok and changes only its own component, whatever the other one is.
C4_SetterStep ==
    /\ call'.op = "set_horizontal" =>
        LET c == call'.h
        IN  IF c >= 1024 /\ c <= 32767
            THEN /\ ret' = Ok(Unit)
                 /\ crs'.horizontal = c
                 /\ crs'.vertical = crs.vertical
            ELSE /\ ret' = Err(SetBadCode(c))
                 /\ crs' = crs
    /\ call'.op = "set_vertical" =>
        LET c == call'.v[1]
        IN  IF c >= 1024 /\ c <= 32767
            THEN /\ ret' = Ok(Unit)
                 /\ crs'.vertical = Some(c)
                 /\ crs'.horizontal = crs.horizontal
            ELSE /\ ret' = Err(SetBadCode(c))
                 /\ crs' = crs

C4_SettersValidateInIsolation == [][C4_SetterStep]_vars

\* set_horizontal accepted a code while the vertical component, written by
\* an unchecked setter, is out of range
C4_Witness ==
    /\ call.op = "set_horizontal"
    /\ ret = Ok(Unit)
    /\ crs.horizontal = call.h
    /\ crs.vertical = Some(0)

---------------------------------------------------------------------------
(* Claims about the WKT scanner *)

Max(S) == CHOOSE x \in S : \A y \in S : y <= x
Min(S) == CHOOSE x \in S : \A y \in S : x <= y

\* The digit run the scanner is said to collect from a buffer: trim the
\* trailing ASCII whitespace, keep the last 10 bytes, and take the digits
\* that end at the last digit of that window.
TrimmedLen(b) == Max({0} \cup {i \in 1 .. Len(b) : b[i] \notin {32, 9, 10, 12, 13}})

LastTen(b) ==
    LET n == TrimmedLen(b)
    IN  SubSeq(b, IF n > 10 THEN n - 9 ELSE 1, n)

TrailingRun(b) ==
    LET w == LastTen(b)
        D == {i \in 1 .. Len(w) : w[i] \in 48 .. 57}
    IN  IF D = {} THEN <<>>
        ELSE LET e == Max(D)
                 s == Min({i \in 1 .. e : \A j \in i .. e : j \in D})
             IN  SubSeq(w, s, e)

RECURSIVE Decimal(_)
Decimal(run) ==
    IF run = <<>> THEN 0
    ELSE 10 * Decimal(SubSeq(run, 1, Len(run) - 1)) + (run[Len(run)] - 48)

\* the get_code runs of the scan: the horizontal piece, and the vertical one if run
CodeRuns ==
    IF wkt_run.tag # "ran" THEN {}
    ELSE {wkt_run.codes.hor} \cup
         (IF wkt_run.codes.ver.ret.tag = "none" THEN {} ELSE {wkt_run.codes.ver})

\* C5: with h the code extracted from the horizontal substring and v the one
\* from the vertical substring (0 without one), the scanner fails with
\* BadHorizontalCodeParsed carrying (h, Some(v)) if h is outside [1024, 32767];
\* otherwise it succeeds with horizontal h and vertical v if v is in range,
\* else absent.
C5_WktOutcome ==
    wkt_run.tag = "ran" =>
        /\ wkt_run.codes.ret.tag = "Ok"
        /\ LET h == wkt_run.codes.ret.val[1]
               v == wkt_run.codes.ret.val[2]
           IN  IF h < 1024 \/ h > 32767
               THEN wkt_run.result =
                        Err(BadHorizontalCodeParsed(EpsgCRS(h, Some(v))))
               ELSE wkt_run.result =
                        Ok(EpsgCRS(h, IF v >= 1024 /\ v <= 32767 THEN Some(v) ELSE None))

\* C8: get_code looks at no more than the last 10 bytes of the trimmed
\* buffer; a digit run of 1 to 5 digits worth at most 65535 is returned as
\* its decimal value with no u16 quantity overflowing; no digit gives 0.
C8_TrailingInteger ==
    \A r \in CodeRuns :
        LET run == TrailingRun(r.bytes)
        IN  /\ run = <<>> => r.ret = Ok(0)
            /\ (Len(run) \in 1 .. 5 /\ Decimal(run) <= 65535) =>
                   /\ r.ret = Ok(Decimal(run))
                   /\ ~r.overflowed

\* C9: the text is split at the first occurrence of the first of "VERTCRS",
\* "VERTICALCRS", "VERT_CS" it contains; the horizontal code is extracted
\* from the text before it and the vertical code from the text after it;
\* with no marker the whole text is the horizontal substring and the raw
\* vertical code is 0.
C9_MarkerPriority ==
    wkt_run.tag = "ran" =>
        LET t == wkt_run.text
            at(m) == {i \in 1 .. Len(t) - Len(m) + 1 :
                         \A k \in 1 .. Len(m) : t[i + k - 1] = m[k]}
            has(m) == at(m) # {}
            ms == IF has(VERTCRS) THEN <<VERTCRS>>
                  ELSE IF has(VERTICALCRS) THEN <<VERTICALCRS>>
                  ELSE IF has(VERT_CS) THEN <<VERT_CS>>
                  ELSE <<>>
            p == wkt_run.pieces
            c == wkt_run.codes
        IN  IF ms = <<>>
            THEN /\ p.hor = t
                 /\ p.ver = None
                 /\ c.hor.bytes = t
                 /\ c.ver.ret.tag = "none"
                 /\ c.ret.tag = "Ok" => c.ret.val[2] = 0
            ELSE LET m == ms[1]
                     first == Min(at(m))
                 IN  /\ p.hor = SubSeq(t, 1, first - 1)
                     /\ p.ver = Some(SubSeq(t, first + Len(m), Len(t)))
                     /\ c.hor.bytes = p.hor
                     /\ c.ver.ret.tag # "none" => c.ver.bytes = p.ver[1]
                     /\ c.hor.ret.tag = "Ok" => c.ver.ret.tag # "none"

\* "VERT_CS" stands before "VERTCRS" in the text, and the split is at "VERTCRS"
C9_Witness ==
    /\ wkt_run.tag = "ran"
    /\ wkt_run.text = VERT_CS \o TOK_2992 \o VERTCRS
    /\ wkt_run.pieces = Two(VERT_CS \o TOK_2992, <<>>)
    /\ wkt_run.codes.ret = Ok(<<2992, 0>>)

---------------------------------------------------------------------------
(* Claims about the GeoTIFF reducer *)

\* the directory reduced, once it has been
Reduced == gt_in # None /\ gt_out # NoRet

\* a key-1024 payload the reducer passes over
PassedModelType(data) == data.kind = "U16" /\ data.v \in {0, 1, 2, 3}

\* C6 as stated: the first key-1024 entry whose payload is not inline 1, 2
\* or 3 makes the reducer fail, with UnreadableGeoTiffCrs for inline 0, with
\* UserDefinedCrs for inline 32767 and else with the unimplemented error
\* carrying that entry's payload, whatever the other entries; key-1024
\* entries with inline 1, 2 or 3 have no effect on the result.
C6_ModelTypeAsStated ==
    Reduced =>
        LET d == gt_in[1]
            accepted(data) == data.kind = "U16" /\ data.v \in {1, 2, 3}
            failing == {i \in 1 .. Len(d) : d[i].id = 1024 /\ ~accepted(d[i].data)}
            others == SelectSeq(d, LAMBDA e : e.id # 1024)
        IN  IF failing # {}
            THEN LET data == d[Min(failing)].data
                 IN  IF data = U16(0)
                     THEN gt_out = Err(LasError(UnreadableGeoTiffCrs))
                     ELSE IF data = U16(32767)
                     THEN gt_out = Err(UserDefinedCrs)
                     ELSE gt_out =
                              Err(UnimplementedForGeoTiffStringAndDoubleData(data))
            ELSE gt_out = get_epsg_from_geotiff_crs(others)

\* C6 (amended): key-1024 entries with inline 0, 1, 2 or 3 have no effect on
\* the result; the first key-1024 entry with any other payload makes the
\* reducer fail, with UserDefinedCrs for inline 32767 and else with the
\* unimplemented error carrying that entry's payload.
C6_ModelType ==
    Reduced =>
        LET d == gt_in[1]
            rejected == {i \in 1 .. Len(d) :
                            d[i].id = 1024 /\ ~PassedModelType(d[i].data)}
            others == SelectSeq(d, LAMBDA e : e.id # 1024)
        IN  IF rejected # {}
            THEN LET data == d[Min(rejected)].data
                 IN  IF data = U16(32767)
                     THEN gt_out = Err(UserDefinedCrs)
                     ELSE gt_out =
                              Err(UnimplementedForGeoTiffStringAndDoubleData(data))
            ELSE gt_out = get_epsg_from_geotiff_crs(others)

\* a model type of inline 0 beside a valid horizontal code: the code is returned
C6_Witness ==
    /\ gt_in = Some(<<Entry(1024, U16(0)), Entry(2048, U16(4326))>>)
    /\ gt_out = Ok(EpsgCRS(4326, None))

\* C7: when every key-1024 entry is inline 1, 2 or 3, with H the last inline
\* value under key 2048 or 3072 and V the last inline value under key 4096:
\* UnreadableGeoTiffCrs if H is none or 0; BadHorizontalCodeParsed carrying
\* (H, V) if H is outside [1024, 32767]; else horizontal H and vertical V
\* when V is in [1024, 32767], else absent.  No other key affects the result.
C7_Reduction ==
    (/\ Reduced
     /\ \A i \in 1 .. Len(gt_in[1]) :
            gt_in[1][i].id = 1024 =>
                /\ gt_in[1][i].data.kind = "U16"
                /\ gt_in[1][i].data.v \in {1, 2, 3})
    =>
        LET d == gt_in[1]
            hs == {i \in 1 .. Len(d) : d[i].id \in {2048, 3072} /\ d[i].data.kind = "U16"}
            vs == {i \in 1 .. Len(d) : d[i].id = 4096 /\ d[i].data.kind = "U16"}
            H == IF hs = {} THEN None ELSE Some(d[Max(hs)].data.v)
            V == IF vs = {} THEN None ELSE Some(d[Max(vs)].data.v)
        IN  IF H = None \/ H = Some(0)
            THEN gt_out = Err(LasError(UnreadableGeoTiffCrs))
            ELSE IF H[1] < 1024 \/ H[1] > 32767
            THEN gt_out = Err(BadHorizontalCodeParsed(EpsgCRS(H[1], V)))
            ELSE gt_out = Ok(EpsgCRS(H[1],
                                IF V # None /\ V[1] >= 1024 /\ V[1] <= 32767
                                THEN V ELSE None))

\* both horizontal keys are present and the later one is the result
C7_Witness ==
    /\ gt_in = Some(<<Entry(2048, U16(4326)), Entry(3072, U16(25832)),
                      Entry(4096, U16(5941))>>)
    /\ gt_out = Ok(EpsgCRS(25832, Some(5941)))

Remove(s, i) == SubSeq(s, 1, i - 1) \o SubSeq(s, i + 1, Len(s))

RECURSIVE Permutations(_)
Permutations(s) ==
    IF s = <<>> THEN {<<>>}
    ELSE UNION {{<<s[i]>> \o p : p \in Permutations(Remove(s, i))} : i \in 1 .. Len(s)}

IsHorizontalKey(e) == e.id \in {2048, 3072}
IsInlineVertical(e) == e.id = 4096 /\ e.data.kind = "U16"
IsRejectedModelType(e) == e.id = 1024 /\ ~PassedModelType(e.data)

\* C10 as stated: every permutation of the entries that keeps the relative
\* order of the entries with key 2048 or 3072 gives the same outcome.
C10_OrderAsStated ==
    Reduced =>
        \A p \in Permutations(gt_in[1]) :
            SelectSeq(p, IsHorizontalKey) = SelectSeq(gt_in[1], IsHorizontalKey)
            => get_epsg_from_geotiff_crs(p) = gt_out

\* C10 (amended): every permutation of the entries that keeps the relative
\* order of the entries with key 2048 or 3072, of the inline entries with
\* key 4096, and of the key-1024 entries whose payload is not inline 0, 1,
\* 2 or 3, gives the same outcome.
C10_OrderIndependence ==
    Reduced =>
        \A p \in Permutations(gt_in[1]) :
            (/\ SelectSeq(p, IsHorizontalKey) = SelectSeq(gt_in[1], IsHorizontalKey)
             /\ SelectSeq(p, IsInlineVertical) = SelectSeq(gt_in[1], IsInlineVertical)
             /\ SelectSeq(p, IsRejectedModelType)
                    = SelectSeq(gt_in[1], IsRejectedModelType))
            => get_epsg_from_geotiff_crs(p) = gt_out

\* a directory of three different keys, whose reversal reduces to the same codes
C10_Witness ==
    /\ gt_in = Some(<<Entry(4096, U16(5941)), Entry(3072, U16(25832)),
                      Entry(1024, U16(1))>>)
    /\ gt_out = Ok(EpsgCRS(25832, Some(5941)))
    /\ get_epsg_from_geotiff_crs(<<Entry(1024, U16(1)), Entry(3072, U16(25832)),
                                   Entry(4096, U16(5941))>>) = gt_out

---------------------------------------------------------------------------
(* Claims about the dispatcher *)

Dispatched == hdr.tag = "header" /\ hdr_out # NoRet

\* C1 as stated: WKT bytes present: the WKT scanner's result; else a GeoTIFF
\* directory present: the reducer's result; else Ok(None), not an error.
\* The declared-WKT flag never changes the returned value.
C1_DispatchAsStated ==
    Dispatched =>
        IF hdr.wkt # None
        THEN hdr_out.ret = OkSome(get_epsg_from_wkt_crs_bytes(hdr.wkt[1]))
        ELSE IF hdr.geotiff.tag = "Ok" /\ hdr.geotiff.val # None
        THEN hdr_out.ret = OkSome(get_epsg_from_geotiff_crs(hdr.geotiff.val[1]))
        ELSE hdr_out.ret = Ok(None)

\* C1 (amended): WKT bytes present: the WKT scanner's result, whatever the
\* GeoTIFF signal; else, the reading library failing to give the GeoTIFF
\* directory: that error; else a directory present: the reducer's result;
\* else Ok(None).  The declared-WKT flag never changes the returned value.
C1_Dispatch ==
    Dispatched =>
        IF hdr.wkt # None
        THEN hdr_out.ret = OkSome(get_epsg_from_wkt_crs_bytes(hdr.wkt[1]))
        ELSE IF hdr.geotiff.tag = "Err"
        THEN hdr_out.ret = Err(LasError(hdr.geotiff.err))
        ELSE IF hdr.geotiff.val # None
        THEN hdr_out.ret = OkSome(get_epsg_from_geotiff_crs(hdr.geotiff.val[1]))
        ELSE hdr_out.ret = Ok(None)

\* WKT bytes and a failing GeoTIFF lookup together: the WKT result is returned
C1_Witness ==
    /\ hdr = Header(Some(TOK_2992 \o TOK_CLOSE), Err(LAS_ERROR), FALSE)
    /\ hdr_out # NoRet
    /\ hdr_out.ret = Ok(Some(EpsgCRS(2992, None)))

===========================================================================
